---- MODULE Spec2Model ----
(***************************************************************************)
(* Camera event logger (cam-1): the event store (in-memory list `events`   *)
(* and its localStorage mirror), the history display, and the per-item     *)
(* swipe-to-delete gesture recognizer.  The model follows the swipeable    *)
(* variant of the page script (src/unnamed/part_000); src/script.js is the *)
(* older variant with the same saveEvent / loadEvents and no recognizer.   *)
(***************************************************************************)
EXTENDS Integers, Sequences, FiniteSets, TLC

\* ---------------------------------------------------------------- bounds
MaxEvents == 2        \* Spec: captures are explored while the list is shorter
MaxItems == 2         \* Spec: history items created on one page (loaded + captured)
MaxDragEvents == 1    \* SpecDrag: captures are explored while the list is shorter
MaxDragItems == 1     \* SpecDrag: history items created on one page
MaxClock == 10        \* last value of Date.now() explored
MaxDeleteCalls == 2   \* drag-ends are explored on an item with fewer deleteHistoryItem calls
MaxSessions == 1      \* items engaged by a pointer at the same time

\* ------------------------------------------------------- program constants
SoftThreshold == 80   \* currentTranslate < -80  : delete-ready
HardThreshold == 100  \* currentTranslate < -100 : commit
FirstClock == 9       \* Date.now() when the model starts (ids 9, 10: one and two digits)

Xs == {0, 80, 180}    \* clientX values of pointer events (differences 80, 100, 180)
SwipeFrom == {180}    \* Spec: a swipe starts at the right end of an item
SwipeTo == {0}        \* Spec: and moves to its left end
Images == {"imgA"}
CAMERA_NAME == "Camera 1"

MaxFirstOk == 4       \* which setItem call of a dispatch is the first that fits
Undefined == -1       \* `let startX;` before the first drag-start

VARIABLES
    loaded,        \* the DOMContentLoaded handler has run on this page
    clockTimer,    \* setInterval(updateCurrentTime, 1000) is running
    camera,        \* "none" | "pending" | "granted" | "denied"; stream # null iff "granted"
    now,           \* Date.now()
    events,        \* the in-memory list: a JS value [tag, val]
    persisted,     \* localStorage['camera_events']: absent or a text
    dashboard,     \* the localStorage entries dashboard_event_<id>
    items,         \* history items of this page, in creation order
    notification,  \* the last showNotification(message, isError)
    session        \* history, not program state: per item, what the moves since
                   \* its drag-start did (kept by SpecDrag only)

vars == <<loaded, clockTimer, camera, now, events, persisted, dashboard, items,
          notification, session>>

\* ------------------------------------------------------------ JS values
JsArray(s) == [tag |-> "array", val |-> s]
JsNull == [tag |-> "null", val |-> <<>>]

Absent == [tag |-> "absent", val |-> <<>>]      \* getItem returns null
Garbage == [tag |-> "garbage", val |-> <<>>]    \* a text JSON.parse rejects
NullText == [tag |-> "null", val |-> <<>>]      \* the text "null": parses, is no list
ArrayText(s) == [tag |-> "array", val |-> s]    \* the text of a JSON array

\* JSON.stringify of one event record: its fields in insertion order
StringifyRecord(r) == <<r.id, r.timestamp, r.formattedTime, r.cameraName, r.imageData>>

ParseRecord(t) ==
    [id |-> t[1], timestamp |-> t[2], formattedTime |-> t[3],
     cameraName |-> t[4], imageData |-> t[5]]

\* JSON.stringify(events)
Stringify(v) ==
    IF v.tag = "array"
    THEN ArrayText([i \in 1..Len(v.val) |-> StringifyRecord(v.val[i])])
    ELSE NullText

\* JSON.parse(text) for a text that parses
JSONparse(t) ==
    IF t.tag = "array"
    THEN JsArray([i \in 1..Len(t.val) |-> ParseRecord(t.val[i])])
    ELSE JsNull

\* String(n): the decimal digits of a positive integer (dataset.id = event.id)
RECURSIVE ToDigits(_)
ToDigits(n) == IF n < 10 THEN <<n>> ELSE Append(ToDigits(n \div 10), n % 10)

\* parseInt(text) of a digit string
RECURSIVE ParseInt(_)
ParseInt(d) ==
    IF Len(d) = 0 THEN 0
    ELSE 10 * ParseInt(SubSeq(d, 1, Len(d) - 1)) + d[Len(d)]

ToISOString(t) == <<"iso", t>>
ToLocaleString(t) == <<"locale", t>>

\* ------------------------------------------------------------ sequences
RECURSIVE FilterSeq(_, _)
\* events.filter(event => event.id !== eventId)
FilterSeq(s, eventId) ==
    IF s = <<>> THEN <<>>
    ELSE IF Head(s).id # eventId
         THEN <<Head(s)>> \o FilterSeq(Tail(s), eventId)
         ELSE FilterSeq(Tail(s), eventId)

RECURSIVE IsSubSeq(_, _)
IsSubSeq(a, b) ==
    IF a = <<>> THEN TRUE
    ELSE IF b = <<>> THEN FALSE
    ELSE IF Head(a) = Head(b) THEN IsSubSeq(Tail(a), Tail(b))
    ELSE IsSubSeq(a, Tail(b))

\* localStorage.setItem throws QuotaExceededError when the value does not fit.
\* A text that only drops records from the one stored always fits; any other
\* write may or may not fit.
MustFit(text, old) ==
    /\ text.tag = "array"
    /\ old.tag = "array"
    /\ IsSubSeq(text.val, old.val)

\* ------------------------------------------------------------ history items
Px(n) == [unit |-> "px", v |-> n]          \* translateX(<n>px), translateX(0)
OffScreen == [unit |-> "pct", v |-> -100]  \* translateX(-100%)

NewRecognizer ==
    [startX |-> Undefined, currentTranslate |-> 0, isDragging |-> FALSE,
     docListeners |-> FALSE]

\* document.createElement('div') ... makeHistoryItemSwipeable(historyItem).
\* deleteCalls is a history field, not program state: the deleteHistoryItem
\* calls made for the item.
NewItem(event) ==
    [dataId |-> ToDigits(event.id),
     recognizers |-> <<NewRecognizer>>,
     transform |-> Px(0),
     deleteReady |-> FALSE,
     inDom |-> TRUE,
     touching |-> FALSE,
     timers |-> 0,
     deleteCalls |-> 0]

\* makeHistoryItemSwipeable(item): one more closure with its own listeners
makeHistoryItemSwipeable(item) ==
    [item EXCEPT !.recognizers = Append(@, NewRecognizer)]

\* makeHistoryItemsSwipeable(): every .history-item of the document
makeHistoryItemsSwipeable(its) ==
    [i \in 1..Len(its) |->
        IF its[i].inDom THEN makeHistoryItemSwipeable(its[i]) ELSE its[i]]

\* addEventToHistory for each loaded event, in store order
addEventsToHistory(evs) == [i \in 1..Len(evs) |-> NewItem(evs[i])]

\* historyContainer's children, top to bottom: every item is inserted first
RECURSIVE Reverse(_)
Reverse(s) == IF s = <<>> THEN <<>> ELSE Append(Reverse(Tail(s)), Head(s))

InDom(it) == it.inDom
historyContainer == Reverse(SelectSeq(items, InDom))

Notify(message, isError) == [text |-> message, isError |-> isError]
NoNotification == Notify("", FALSE)

\* shown: a move of the item's current drag session has put it in the
\* delete-ready state; rightOnly: a drag-start happened and every move since
\* the last one was to the right of its origin; lastLeft: the displacement of
\* the last move of the session that was left of its origin, 0 if none
NoSession == [shown |-> FALSE, rightOnly |-> FALSE, lastLeft |-> 0]
NoSessions == [i \in 1..MaxItems |-> NoSession]

\* ------------------------------------------------------------ initial state
Init ==
    /\ loaded = FALSE
    /\ clockTimer = FALSE
    /\ camera = "none"
    /\ now = FirstClock
    /\ events = JsArray(<<>>)
    /\ persisted \in {Absent, Garbage, NullText}
    /\ dashboard = {}
    /\ items = <<>>
    /\ notification = NoNotification
    /\ session = NoSessions

\* ------------------------------------------------------------ page life
\* DOMContentLoaded: initCamera(); updateCurrentTime(); loadEvents();
\* setInterval(...); makeHistoryItemsSwipeable().  An exception thrown by
\* loadEvents ends the handler.
PageLoad ==
    /\ ~loaded
    /\ loaded' = TRUE
    /\ camera' = "pending"
    /\ IF persisted.tag = "absent"
       THEN /\ events' = events
            /\ items' = makeHistoryItemsSwipeable(makeHistoryItemsSwipeable(items))
            /\ clockTimer' = TRUE
       ELSE IF persisted.tag = "garbage"
       THEN /\ UNCHANGED <<events, items, clockTimer>>
       ELSE IF persisted.tag = "null"
       THEN /\ events' = JSONparse(persisted)
            /\ UNCHANGED <<items, clockTimer>>
       ELSE /\ events' = JSONparse(persisted)
            /\ items' = makeHistoryItemsSwipeable(
                            makeHistoryItemsSwipeable(addEventsToHistory(events'.val)))
            /\ clockTimer' = TRUE
    /\ UNCHANGED <<now, persisted, dashboard, notification>>

\* The page goes away (reload, navigation, crash): script state, display and
\* timers are lost, localStorage stays.
Unload ==
    /\ loaded
    /\ loaded' = FALSE
    /\ clockTimer' = FALSE
    /\ camera' = "none"
    /\ events' = JsArray(<<>>)
    /\ items' = <<>>
    /\ notification' = NoNotification
    /\ UNCHANGED <<now, persisted, dashboard>>

\* initCamera: getUserMedia resolves
CameraGranted ==
    /\ camera = "pending"
    /\ camera' = "granted"
    /\ notification' = Notify("Camera connected successfully", FALSE)
    /\ UNCHANGED <<loaded, clockTimer, now, events, persisted, dashboard, items>>

\* initCamera: getUserMedia rejects
CameraDenied ==
    /\ camera = "pending"
    /\ camera' = "denied"
    /\ notification' = Notify("Error accessing camera. Please check permissions.", TRUE)
    /\ UNCHANGED <<loaded, clockTimer, now, events, persisted, dashboard, items>>

\* The wall clock advances; Date.now() need not change between two events.
Tick ==
    /\ now' = now + 1
    /\ UNCHANGED <<loaded, clockTimer, camera, events, persisted, dashboard, items, notification>>

\* ------------------------------------------------------------ capture
\* The event object built by the click handler
NewEvent(t, img) ==
    [id |-> t, timestamp |-> ToISOString(t), formattedTime |-> ToLocaleString(t),
     cameraName |-> CAMERA_NAME, imageData |-> img]

\* sendToDashboard: the dashboardEvent stored under dashboard_event_<id>
DashboardEvent(event) ==
    [id |-> event.id, timestamp |-> event.timestamp,
     cameraName |-> event.cameraName, imageData |-> event.imageData]

\* localStorage.setItem(`dashboard_event_${event.id}`, ...): one entry per id
sendToDashboard(store, event) ==
    {d \in store : d.id # event.id} \cup {DashboardEvent(event)}

\* events.push(event)
Push(v, event) == JsArray(Append(v.val, event))

\* a stream test that also passes while getUserMedia is still pending
HasStreamOrPending(cam) == cam \in {"granted", "pending"}

\* `stream` is non-null: initCamera assigns it when getUserMedia resolves
HasStream(cam) == cam = "granted"

\* eventButton click with no stream
CaptureUnavailable ==
    /\ loaded
    /\ ~HasStream(camera)
    /\ notification' = Notify("Camera not available", TRUE)
    /\ UNCHANGED <<loaded, clockTimer, camera, now, events, persisted, dashboard, items>>

\* eventButton click with a stream: saveEvent, addEventToHistory,
\* sendToDashboard, showNotification.  okSave / okDash: whether the two
\* localStorage.setItem calls fit; a throw ends the handler.  events.push on a
\* value that is no list throws before anything is changed.
Capture(img, okSave, okDash) ==
    /\ loaded
    /\ HasStream(camera)
    /\ LET event == NewEvent(now, img)
           pushed == Push(events, event)
           text == Stringify(pushed)
       IN IF events.tag # "array"
          THEN UNCHANGED <<events, persisted, items, dashboard, notification>>
          ELSE /\ events' = pushed
               /\ IF ~(okSave \/ MustFit(text, persisted))
                  THEN UNCHANGED <<persisted, items, dashboard, notification>>
                  ELSE /\ persisted' = text
                       /\ items' = Append(items, NewItem(event))
                       /\ IF ~okDash
                          THEN UNCHANGED <<dashboard, notification>>
                          ELSE /\ dashboard' = sendToDashboard(dashboard, event)
                               /\ notification' = Notify("Event reported successfully", FALSE)
    /\ UNCHANGED <<loaded, clockTimer, camera, now>>

\* ------------------------------------------------------------ recognizer
\* `if (diffX < 0)`: only leftward motion is applied
SwipesLeft(diffX) == diffX < 0

\* an affordance test that also fires at the threshold itself
IsDeleteReadyAtThreshold(currentTranslate) == currentTranslate <= -SoftThreshold

\* `if (currentTranslate < -80)`
IsDeleteReady(currentTranslate) == currentTranslate < -SoftThreshold

\* a commit test that also fires at the threshold itself
ShouldCommitAtThreshold(currentTranslate) == currentTranslate <= -HardThreshold

\* `if (currentTranslate < -100)`
ShouldCommit(currentTranslate) == currentTranslate < -HardThreshold

\* handleTouchStart of one recognizer
handleTouchStart(r, x) == [r EXCEPT !.startX = x, !.isDragging = TRUE]

\* handleMouseDown of one recognizer
handleMouseDown(r, x) ==
    [r EXCEPT !.startX = x, !.isDragging = TRUE, !.docListeners = TRUE]

\* handleTouchMove / handleMouseMove of recognizer k of an item at position x
handleMove(item, k, x) ==
    LET r == item.recognizers[k]
        diffX == x - r.startX
    IN IF ~r.isDragging THEN item
       ELSE IF ~SwipesLeft(diffX) THEN item
       ELSE [item EXCEPT !.recognizers[k].currentTranslate = diffX,
                         !.transform = Px(diffX),
                         !.deleteReady = IsDeleteReady(diffX)]

handleTouchMove(item, k, x) == handleMove(item, k, x)
handleMouseMove(item, k, x) == handleMove(item, k, x)

\* A dispatch threads st = [events, persisted, items, calls] through the
\* listeners it runs; calls counts the setItem calls made so far, and the
\* calls before the firstOk-th throw unless the text must fit.

\* deleteHistoryItem(item) for item i
deleteHistoryItem(st, i, firstOk) ==
    LET item == st.items[i]
        eventId == ParseInt(item.dataId)
        filtered == JsArray(FilterSeq(st.events.val, eventId))
        text == Stringify(filtered)
        n == st.calls + 1
        called == [st EXCEPT !.calls = n, !.items[i].deleteCalls = @ + 1]
    IN IF st.events.tag # "array" THEN called
       ELSE IF ~(n >= firstOk \/ MustFit(text, st.persisted))
       THEN [called EXCEPT !.events = filtered]
       ELSE [called EXCEPT !.events = filtered,
                           !.persisted = text,
                           !.items[i].transform = OffScreen,
                           !.items[i].timers = @ + 1]

\* The reset branch of handleTouchEnd / handleMouseUp
ResetPosition(st, i, k) ==
    [st EXCEPT !.items[i].recognizers[k].currentTranslate = 0,
               !.items[i].transform = Px(0),
               !.items[i].deleteReady = FALSE]

\* handleTouchEnd of recognizer k of item i
handleTouchEnd(st, i, k, firstOk) ==
    LET r == st.items[i].recognizers[k]
        ended == [st EXCEPT !.items[i].recognizers[k].isDragging = FALSE]
    IN IF ShouldCommit(r.currentTranslate)
       THEN deleteHistoryItem(ended, i, firstOk)
       ELSE ResetPosition(ended, i, k)

\* a mouse-up that ends the sessions of every item, as with one shared
\* isDragging flag
handleMouseUpShared(st, i, k, firstOk) ==
    [st EXCEPT !.items =
        [j \in 1..Len(st.items) |->
            [st.items[j] EXCEPT !.recognizers =
                [n \in 1..Len(@) |-> [@[n] EXCEPT !.isDragging = FALSE]]]]]

\* handleMouseUp of recognizer k of item i
handleMouseUp(st, i, k, firstOk) ==
    LET r == st.items[i].recognizers[k]
        ended == [st EXCEPT !.items[i].recognizers[k].isDragging = FALSE,
                            !.items[i].recognizers[k].docListeners = FALSE]
    IN IF ~r.isDragging THEN st
       ELSE IF ShouldCommit(r.currentTranslate)
       THEN deleteHistoryItem(ended, i, firstOk)
       ELSE ResetPosition(ended, i, k)

Dispatch == [events |-> events, persisted |-> persisted, items |-> items, calls |-> 0]

\* touchend on item i: the touchend listeners of its recognizers, in order
RECURSIVE TouchEndFrom(_, _, _, _)
TouchEndFrom(st, i, k, firstOk) ==
    IF k > Len(st.items[i].recognizers) THEN st
    ELSE TouchEndFrom(handleTouchEnd(st, i, k, firstOk), i, k + 1, firstOk)

\* mouseup on the document: every attached handleMouseUp
RECURSIVE MouseUpFrom(_, _, _, _)
MouseUpFrom(st, i, k, firstOk) ==
    IF i > Len(st.items) THEN st
    ELSE IF k > Len(st.items[i].recognizers) THEN MouseUpFrom(st, i + 1, 1, firstOk)
    ELSE IF st.items[i].recognizers[k].docListeners
    THEN MouseUpFrom(handleMouseUp(st, i, k, firstOk), i, k + 1, firstOk)
    ELSE MouseUpFrom(st, i, k + 1, firstOk)

\* a move delivered to the recognizers k.. of an item (mouse: the attached ones)
RECURSIVE MoveFrom(_, _, _, _)
MoveFrom(item, k, x, mouse) ==
    IF k > Len(item.recognizers) THEN item
    ELSE IF mouse
    THEN IF item.recognizers[k].docListeners
         THEN MoveFrom(handleMouseMove(item, k, x), k + 1, x, mouse)
         ELSE MoveFrom(item, k + 1, x, mouse)
    ELSE MoveFrom(handleTouchMove(item, k, x), k + 1, x, mouse)

HasDocListeners(item) ==
    \E k \in 1..Len(item.recognizers) : item.recognizers[k].docListeners

IsDragging(item) ==
    \E k \in 1..Len(item.recognizers) : item.recognizers[k].isDragging

Attached(item) == {k \in 1..Len(item.recognizers) : item.recognizers[k].docListeners}

\* ------------------------------------------------------------ gesture events
\* touchstart on item i (one finger at a time)
TouchStart(i, x) ==
    /\ i \in 1..Len(items)
    /\ items[i].inDom
    /\ ~items[i].touching
    /\ items' = [items EXCEPT ![i] =
                    [@ EXCEPT !.touching = TRUE,
                              !.recognizers =
                                  [k \in 1..Len(@) |-> handleTouchStart(@[k], x)]]]
    /\ UNCHANGED <<loaded, clockTimer, camera, now, events, persisted, dashboard, notification>>

\* touchmove of the finger that is down on item i
TouchMove(i, x) ==
    /\ i \in 1..Len(items)
    /\ items[i].touching
    /\ items' = [items EXCEPT ![i] = MoveFrom(@, 1, x, FALSE)]
    /\ UNCHANGED <<loaded, clockTimer, camera, now, events, persisted, dashboard, notification>>

\* touchend of the finger that is down on item i
TouchEnd(i, firstOk) ==
    /\ i \in 1..Len(items)
    /\ items[i].touching
    /\ LET st == TouchEndFrom(Dispatch, i, 1, firstOk)
       IN /\ events' = st.events
          /\ persisted' = st.persisted
          /\ items' = [st.items EXCEPT ![i].touching = FALSE]
    /\ UNCHANGED <<loaded, clockTimer, camera, now, dashboard, notification>>

\* mousedown on item i
MouseDown(i, x) ==
    /\ i \in 1..Len(items)
    /\ items[i].inDom
    /\ items' = [items EXCEPT ![i].recognizers =
                    [k \in 1..Len(@) |-> handleMouseDown(@[k], x)]]
    /\ UNCHANGED <<loaded, clockTimer, camera, now, events, persisted, dashboard, notification>>

\* mousemove on the document
MouseMove(x) ==
    /\ \E i \in 1..Len(items) : HasDocListeners(items[i])
    /\ items' = [i \in 1..Len(items) |-> MoveFrom(items[i], 1, x, TRUE)]
    /\ UNCHANGED <<loaded, clockTimer, camera, now, events, persisted, dashboard, notification>>

\* mouseup on the document
MouseUp(firstOk) ==
    /\ \E i \in 1..Len(items) : HasDocListeners(items[i])
    /\ LET st == MouseUpFrom(Dispatch, 1, 1, firstOk)
       IN /\ events' = st.events
          /\ persisted' = st.persisted
          /\ items' = st.items
    /\ UNCHANGED <<loaded, clockTimer, camera, now, dashboard, notification>>

\* the 300 ms timeout of one deleteHistoryItem call: item.remove();
\* showNotification('Event deleted')
TimerFire(i) ==
    /\ i \in 1..Len(items)
    /\ items[i].timers > 0
    /\ items' = [items EXCEPT ![i].timers = @ - 1, ![i].inDom = FALSE]
    /\ notification' = Notify("Event deleted", FALSE)
    /\ UNCHANGED <<loaded, clockTimer, camera, now, events, persisted, dashboard>>

\* ------------------------------------------------------------ exploration
\* The guards that keep an exploration finite; the handlers above have none.

\* an item engaged by a pointer: a finger is down on it or a session is active
Engaged(item) ==
    \/ item.touching
    \/ \E k \in 1..Len(item.recognizers) : item.recognizers[k].isDragging

\* a drag starts on item i while fewer than MaxSessions other items are engaged
MayStart(i) ==
    Cardinality({j \in 1..Len(items) : j # i /\ Engaged(items[j])}) < MaxSessions

\* a drag-end is explored on an item with fewer than MaxDeleteCalls calls
MayEnd(i) == i \in 1..Len(items) => items[i].deleteCalls < MaxDeleteCalls

MayMouseUp ==
    \A i \in 1..Len(items) : HasDocListeners(items[i]) => MayEnd(i)

MayCapture(maxEvents, maxItems) ==
    /\ Len(events.val) < maxEvents
    /\ Len(items) < maxItems

PageStep ==
    \/ PageLoad
    \/ Unload
    \/ CameraGranted
    \/ CameraDenied
    \/ CaptureUnavailable

TimeStep == now < MaxClock /\ Tick

CaptureStep(maxEvents, maxItems) ==
    /\ MayCapture(maxEvents, maxItems)
    /\ \E img \in Images, okSave \in BOOLEAN, okDash \in BOOLEAN :
           Capture(img, okSave, okDash)

\* the gestures on items 1..n: drag-starts at positions from, moves to positions to
GestureStep(n, from, to) ==
    \/ \E i \in 1..n, x \in from : MayStart(i) /\ TouchStart(i, x)
    \/ \E i \in 1..n, x \in to : TouchMove(i, x)
    \/ \E i \in 1..n, firstOk \in 1..MaxFirstOk : MayEnd(i) /\ TouchEnd(i, firstOk)
    \/ \E i \in 1..n, x \in from : MayStart(i) /\ MouseDown(i, x)
    \/ \E x \in to : MouseMove(x)
    \/ \E firstOk \in 1..MaxFirstOk : MayMouseUp /\ MouseUp(firstOk)
    \/ \E i \in 1..n : TimerFire(i)

\* Spec: the store, with drags that swipe an item from its right end to its left end
Next ==
    /\ \/ PageStep
       \/ TimeStep
       \/ CaptureStep(MaxEvents, MaxItems)
       \/ GestureStep(MaxItems, SwipeFrom, SwipeTo)
    /\ UNCHANGED session

Spec == Init /\ [][Next]_vars

\* ---- the session history SpecDrag keeps
\* a drag-start on item i: a session begins unless one is active
NoteStart(i) ==
    [session EXCEPT ![i] = [shown |-> IF IsDragging(items[i]) THEN @.shown ELSE FALSE,
                            rightOnly |-> TRUE,
                            lastLeft |-> IF IsDragging(items[i]) THEN @.lastLeft ELSE 0]]

\* the leftward displacements that a move to x gives the active recognizers ks
LeftOf(i, x, ks) ==
    {x - items[i].recognizers[k].startX : k \in
        {n \in ks : /\ items[i].recognizers[n].isDragging
                    /\ x - items[i].recognizers[n].startX < 0}}

\* a move to x that the recognizers ks of item i receive
NoteMoveItem(i, x, ks) ==
    [shown |->
        \/ session[i].shown
        \/ \E k \in ks :
               /\ items[i].recognizers[k].isDragging
               /\ x - items[i].recognizers[k].startX < 0
               /\ items'[i].deleteReady,
     rightOnly |->
        /\ session[i].rightOnly
        /\ \A k \in ks : x > items[i].recognizers[k].startX,
     lastLeft |->
        IF LeftOf(i, x, ks) = {} THEN session[i].lastLeft
        ELSE CHOOSE d \in LeftOf(i, x, ks) : TRUE]

NoteTouchMove(i, x) ==
    [session EXCEPT ![i] = NoteMoveItem(i, x, 1..Len(items[i].recognizers))]

NoteMouseMove(x) ==
    [i \in 1..MaxItems |->
        IF i <= Len(items) THEN NoteMoveItem(i, x, Attached(items[i])) ELSE session[i]]

\* SpecDrag: the recognizer of one item with every pointer position
NextDrag ==
    \/ /\ \/ PageStep
          \/ TimeStep
          \/ CaptureStep(MaxDragEvents, MaxDragItems)
       /\ session' = IF loaded' THEN session ELSE NoSessions
    \/ \E i \in 1..MaxDragItems, x \in Xs :
           MayStart(i) /\ TouchStart(i, x) /\ session' = NoteStart(i)
    \/ \E i \in 1..MaxDragItems, x \in Xs :
           TouchMove(i, x) /\ session' = NoteTouchMove(i, x)
    \/ \E i \in 1..MaxDragItems, firstOk \in 1..MaxFirstOk :
           MayEnd(i) /\ TouchEnd(i, firstOk) /\ UNCHANGED session
    \/ \E i \in 1..MaxDragItems, x \in Xs :
           MayStart(i) /\ MouseDown(i, x) /\ session' = NoteStart(i)
    \/ \E x \in Xs : MouseMove(x) /\ session' = NoteMouseMove(x)
    \/ \E firstOk \in 1..MaxFirstOk : MayMouseUp /\ MouseUp(firstOk) /\ UNCHANGED session
    \/ \E i \in 1..MaxDragItems : TimerFire(i) /\ UNCHANGED session

SpecDrag == Init /\ [][NextDrag]_vars

\* SpecPair: two captured items with drag sessions at the same time, on a page
\* whose writes fit
PairXs == {0, 180}

NextPair ==
    /\ \/ PageLoad
       \/ CameraGranted
       \/ TimeStep
       \/ MayCapture(MaxItems, MaxItems) /\ \E img \in Images : Capture(img, TRUE, TRUE)
       \/ \E i \in 1..MaxItems, x \in PairXs : TouchStart(i, x)
       \/ \E i \in 1..MaxItems, x \in PairXs : TouchMove(i, x)
       \/ \E i \in 1..MaxItems, firstOk \in 1..MaxFirstOk : MayEnd(i) /\ TouchEnd(i, firstOk)
       \/ \E i \in 1..MaxItems, x \in PairXs : MouseDown(i, x)
       \/ \E x \in PairXs : MouseMove(x)
       \/ \E firstOk \in 1..MaxFirstOk : MayMouseUp /\ MouseUp(firstOk)
       \/ \E i \in 1..MaxItems : TimerFire(i)
    /\ UNCHANGED session

SpecPair == Init /\ [][NextPair]_vars

\* SpecLive: Spec with the timers of the page: a timeout that is set fires
\* unless the page goes away first
SpecLive == Spec /\ \A i \in 1..MaxItems : WF_vars(TimerFire(i) /\ UNCHANGED session)

\* ------------------------------------------------------------ claims
\* load(): the collection persisted under camera_events, empty if the value
\* is absent or no list of records
PersistedCollection ==
    IF persisted.tag = "array" THEN JSONparse(persisted).val ELSE <<>>

IdsOf(s) == {s[n].id : n \in 1..Len(s)}

UniqueIds(s) == \A m, n \in 1..Len(s) : m # n => s[m].id # s[n].id

ItemId(item) == ParseInt(item.dataId)

\* C1: whenever control is back in the event loop after a load, an append or a
\* remove, the in-memory event list equals, element for element and in order,
\* the collection persisted under camera_events.
C1_MemoryMirrorsPersisted ==
    (loaded /\ events.tag = "array") => events.val = PersistedCollection

\* C2: no two records of the event store have the same id: in the persisted
\* collection, and in the in-memory list that mirrors it.
C2_IdsUnique ==
    /\ UniqueIds(PersistedCollection)
    /\ events.val = PersistedCollection => UniqueIds(events.val)

\* a drag-end has committed the deletion of the item
Committed(item) == item.deleteCalls > 0

\* C3: from the commit of an item's deletion on, before and after the 300 ms
\* timer fires, no record with the item's id is in the in-memory list or in
\* the persisted collection (which is what a reload after a crash shows).
C3_DeletedStaysDeleted ==
    \A i \in 1..Len(items) :
        Committed(items[i]) =>
            /\ ItemId(items[i]) \notin IdsOf(events.val)
            /\ ItemId(items[i]) \notin IdsOf(PersistedCollection)

\* a step in which deleteHistoryItem is called for item i
DeleteCalled(i) ==
    /\ i \in 1..Len(items)
    /\ Len(items') = Len(items)
    /\ items'[i].deleteCalls > items[i].deleteCalls

\* the removal of the item from the display is scheduled or done
RemovalUnderWay(item) == item.timers > 0 \/ ~item.inDom

\* C4: a delete of an identifier that is no longer (or not) in the store, such
\* as a second gesture on an item whose deletion is committed, leaves the
\* in-memory list and the persisted collection as they were, and the visual
\* removal of the item still completes.
C4_SecondDeleteIsNoOp ==
    [][\A i \in 1..Len(items) :
          (DeleteCalled(i)
              /\ (Committed(items[i]) \/ ItemId(items[i]) \notin IdsOf(events.val)))
          => /\ events' = events
             /\ persisted' = persisted
             /\ RemovalUnderWay(items'[i])]_vars

\* C5: a drag-end commits a deletion only if a move of the same drag session
\* has put the item in the delete-ready state before.
C5_AffordanceBeforeCommit ==
    [][\A i \in 1..Len(items) : DeleteCalled(i) => session[i].shown]_vars

\* the step ends the drag session of item i
DragEnded(i) ==
    /\ i \in 1..Len(items)
    /\ Len(items') = Len(items)
    /\ IsDragging(items[i])
    /\ ~IsDragging(items'[i])

\* C6: a drag-start followed only by moves to the right of its origin ends
\* with the item at offset 0, without the delete-ready affordance, and its
\* drag-end deletes nothing.
C6_RightwardDragDoesNothing ==
    [][\A i \in 1..Len(items) :
          (DragEnded(i) /\ session[i].rightOnly)
          => /\ ~DeleteCalled(i)
             /\ items'[i].transform = Px(0)
             /\ ~items'[i].deleteReady]_vars

\* the step delivers a drag-end event to recognizer k of item i: a touchend on
\* the item, or a mouseup on the document while the recognizer listens to it
DragEndEvent(i, k) ==
    \/ \E firstOk \in 1..MaxFirstOk : TouchEnd(i, firstOk)
    \/ /\ \E firstOk \in 1..MaxFirstOk : MouseUp(firstOk)
       /\ items[i].recognizers[k].docListeners

\* C7: a drag-end event resolves every active session it reaches: the session
\* becomes inactive and, if its offset is below -100, the delete sequence is
\* invoked; otherwise (an offset of exactly -100 included) nothing is deleted,
\* the offset is reset to 0 and the delete-ready affordance is cleared.
C7_DragEndResolves ==
    [][\A i \in 1..Len(items) : \A k \in 1..Len(items[i].recognizers) :
          (DragEndEvent(i, k) /\ items[i].recognizers[k].isDragging)
          => /\ ~items'[i].recognizers[k].isDragging
             /\ IF items[i].recognizers[k].currentTranslate < -HardThreshold
                THEN DeleteCalled(i)
                ELSE /\ ~DeleteCalled(i)
                     /\ items'[i].recognizers[k].currentTranslate = 0
                     /\ items'[i].transform = Px(0)
                     /\ ~items'[i].deleteReady]_vars

\* a drag-end has committed on an item: its session is over, the delete
\* sequence ran, the offset that decided is below -100
C7_Witness ==
    \E i \in 1..Len(items) :
        /\ Committed(items[i])
        /\ ~IsDragging(items[i])
        /\ \A k \in 1..Len(items[i].recognizers) :
               items[i].recognizers[k].currentTranslate < -HardThreshold

\* the step delivers a drag-start event at x to item i
DragStartEvent(i, x) == TouchStart(i, x) \/ MouseDown(i, x)

\* C8: a drag-start on an item whose drag session is active is ignored: origin
\* X, offset and active flag of the session stay as they are.
C8_DuplicateStartIgnored ==
    [][\A i \in 1..Len(items) : \A x \in Xs :
          (DragStartEvent(i, x) /\ IsDragging(items[i]))
          => \A k \in 1..Len(items[i].recognizers) :
                 /\ items'[i].recognizers[k].isDragging = items[i].recognizers[k].isDragging
                 /\ items'[i].recognizers[k].startX = items[i].recognizers[k].startX
                 /\ items'[i].recognizers[k].currentTranslate
                        = items[i].recognizers[k].currentTranslate]_vars

\* C9: every history item, captured or loaded, has exactly one gesture
\* recognizer, so a committed drag calls deleteHistoryItem once.
C9_OneRecognizerPerItem ==
    \A i \in 1..Len(items) : Len(items[i].recognizers) = 1

\* C10: an item with no active drag session has no mousemove / mouseup
\* listener left on the document.
C10_NoListenerLeft ==
    \A i \in 1..Len(items) : ~IsDragging(items[i]) => ~HasDocListeners(items[i])

\* the step runs the DOMContentLoaded handler
PageLoaded == ~loaded /\ loaded'

\* C11: a load that finds camera_events absent or malformed (a text that does
\* not parse, or that is no list of records) yields an empty in-memory list
\* and raises no error: the handler runs to its end (the clock timer is
\* started) and nothing is reported to the user.
C11_MalformedLoadsAsEmpty ==
    [][(PageLoaded /\ persisted.tag # "array")
          => /\ events' = JsArray(<<>>)
             /\ clockTimer'
             /\ notification' = notification]_vars

\* the step is a click on the capture button
CaptureRequest ==
    \/ CaptureUnavailable
    \/ \E img \in Images, okSave \in BOOLEAN, okDash \in BOOLEAN :
           Capture(img, okSave, okDash)

\* C12: while no stream has been acquired (pending, denied), a click on the
\* capture button changes nothing but the notification, which reports the
\* error: list, persisted collection, history and dashboard storage stay, and
\* acquisition is not retried.
C12_NoStreamNoCapture ==
    [][(loaded /\ camera # "granted" /\ CaptureRequest)
          => /\ UNCHANGED <<events, persisted, items, dashboard, camera>>
             /\ notification' = Notify("Camera not available", TRUE)]_vars

\* a capture was requested after the camera was denied, with records in the store
C12_Witness ==
    /\ loaded
    /\ camera = "denied"
    /\ notification = Notify("Camera not available", TRUE)
    /\ Len(PersistedCollection) > 0
    /\ Len(items) > 0

\* the step removes item i from the display
Removed(i) ==
    /\ i \in 1..Len(items)
    /\ Len(items') = Len(items)
    /\ items[i].inDom
    /\ ~items'[i].inDom

\* a deletion of item i is committed and the item is still displayed
CommitPending(i) == i \in 1..Len(items) /\ Committed(items[i]) /\ items[i].inDom

\* item i is off the display (removed, or the page went away)
Gone(i) == i \notin 1..Len(items) \/ ~items[i].inDom

\* the step sets the 300 ms timer of item i
TimerSet(i) ==
    /\ i \in 1..Len(items)
    /\ Len(items') = Len(items)
    /\ items'[i].timers > items[i].timers

\* C13: once a drag-end has committed the deletion of an item, the item is
\* eventually removed from the display.  The removal is the firing of the
\* 300 ms timer and raises the 'Event deleted' notification, and the timer is
\* set only by a step that has removed the records with the item's id from
\* the in-memory list and from the persisted collection.
C13_DeleteThenNotify ==
    /\ [][\A i \in 1..Len(items) :
             /\ TimerSet(i)
                => /\ ItemId(items[i]) \notin IdsOf(events'.val)
                   /\ ItemId(items[i]) \notin IdsOf(PersistedCollection')
             /\ Removed(i)
                => /\ items[i].timers > 0
                   /\ notification' = Notify("Event deleted", FALSE)]_vars
    /\ \A i \in 1..MaxItems : CommitPending(i) ~> Gone(i)

\* the step takes the page away; the next load parses the text it leaves
\* (camera_events is not written while no page is loaded)
PageLeft == loaded /\ ~loaded'

\* what loadEvents assigns to `events` for a stored text
Reloaded(text) == IF text.tag = "absent" THEN JsArray(<<>>) ELSE JSONparse(text)

\* C14: a reload gives back the collection held before it: the list that
\* loadEvents builds from the persisted text equals, element for element and
\* in store order, the in-memory list the page held when it went away.
C14_ReloadRoundTrip ==
    [][(PageLeft /\ events.tag = "array" /\ persisted.tag \in {"absent", "array"})
          => Reloaded(persisted') = events]_vars

\* the ids of the displayed items, top to bottom
DisplayedIds == [n \in 1..Len(historyContainer) |-> ItemId(historyContainer[n])]

\* the ids of a collection of records, in store order
StoreIds(s) == [n \in 1..Len(s) |-> s[n].id]

\* a removal animation is running on some item
AnimationPending == \E i \in 1..Len(items) : items[i].timers > 0

\* C15: in every state of a loaded page with no removal animation pending,
\* the displayed items are the records of the store, newest first: their ids,
\* top to bottom, are the reverse of the store's id sequence (in memory and
\* persisted).
C15_DisplayMirrorsStore ==
    (loaded /\ events.tag = "array" /\ ~AnimationPending)
        => /\ DisplayedIds = Reverse(StoreIds(events.val))
           /\ DisplayedIds = Reverse(StoreIds(PersistedCollection))

\* C16: a delete commit on an item removes from the in-memory list and from
\* the persisted collection exactly the records with the id bound to the
\* item, whatever their position; the other records keep content and order.
C16_DeleteByIdOnly ==
    [][\A i \in 1..Len(items) :
          (DeleteCalled(i) /\ events.tag = "array")
          => /\ events'.val = FilterSeq(events.val, ItemId(items[i]))
             /\ PersistedCollection' = FilterSeq(PersistedCollection, ItemId(items[i]))]_vars

\* the step delivers an event to the listeners of item j alone
ItemEvent(j) ==
    \/ \E x \in PairXs : TouchStart(j, x) \/ TouchMove(j, x) \/ MouseDown(j, x)
    \/ \E firstOk \in 1..MaxFirstOk : TouchEnd(j, firstOk)
    \/ TimerFire(j)

\* item j after a document mousemove / mouseup on a page that shows it alone
AloneAfterMouseMove(j, x) == MoveFrom(items[j], 1, x, TRUE)
AloneAfterMouseUp(j, firstOk) ==
    MouseUpFrom([Dispatch EXCEPT !.items = <<items[j]>>], 1, 1, firstOk).items[1]

\* the step delivers a document mouse event, and item j ends as it would alone
DocumentEvent(j) ==
    \/ \E x \in PairXs : MouseMove(x) /\ items'[j] = AloneAfterMouseMove(j, x)
    \/ \E firstOk \in 1..MaxFirstOk :
           /\ MouseUp(firstOk)
           /\ \E alone \in 1..MaxFirstOk : items'[j] = AloneAfterMouseUp(j, alone)

\* C17: drag session state is scoped per item.  An item (origin X, offset,
\* active flag, affordance, delete calls) changes only in a step that delivers
\* an event to its own listeners: an event on the item, or a document mouse
\* event while one of its recognizers listens on the document, and then it
\* ends as if it were the only item.  A drag-end on another item never deletes
\* or resets it.
C17_SessionsPerItem ==
    [][\A j \in 1..Len(items) :
          (Len(items') = Len(items) /\ items'[j] # items[j])
          => \/ ItemEvent(j)
             \/ HasDocListeners(items[j]) /\ DocumentEvent(j)]_vars

\* two sessions ran at once and one ended with a commit: item 1 is deleted,
\* item 2 is still dragged, at its own offset and with its affordance
C17_Witness ==
    /\ Len(items) = 2
    /\ Committed(items[1])
    /\ ~Committed(items[2])
    /\ IsDragging(items[2])
    /\ items[2].transform = Px(-180)
    /\ items[2].deleteReady
    /\ items[2].recognizers[1].startX # items[1].recognizers[1].startX

\* C18: an item on which no deletion is committed is rendered at an offset of
\* at most 0 and carries the delete-ready affordance exactly when that offset
\* is below -80 (not at -80).
C18_AffordanceIffBelowSoft ==
    \A i \in 1..Len(items) :
        ~Committed(items[i])
        => /\ items[i].transform.unit = "px"
           /\ items[i].transform.v <= 0
           /\ items[i].deleteReady <=> items[i].transform.v < -SoftThreshold

\* an item dragged to exactly -80 after it had been further left: no affordance
C18_Witness ==
    \E i \in 1..Len(items) :
        /\ ~Committed(items[i])
        /\ IsDragging(items[i])
        /\ session[i].shown
        /\ items[i].transform = Px(-SoftThreshold)
        /\ ~items[i].deleteReady

\* C19: a click on the capture button with a stream appends one new record at
\* the end of the in-memory list and of the persisted collection, puts one
\* item for it, with one recognizer, on top of the history, and stores one
\* copy of the record (same id) for the dashboard; the records and items that
\* were there stay as they are.
C19_CaptureAppendsAndForwards ==
    [][(loaded /\ camera = "granted" /\ CaptureRequest)
          => \E img \in Images :
                 LET event == NewEvent(now, img)
                 IN /\ events' = JsArray(Append(events.val, event))
                    /\ PersistedCollection' = Append(PersistedCollection, event)
                    /\ items' = Append(items, NewItem(event))
                    /\ Head(historyContainer').dataId = ToDigits(event.id)
                    /\ DashboardEvent(event) \in dashboard'
                    /\ \A d \in dashboard : d.id # event.id => d \in dashboard'
                    /\ notification' = Notify("Event reported successfully", FALSE)]_vars

\* the step delivers to item i a move to x that is at or right of the origin
\* of its active session
MoveNotLeft(i, x) ==
    /\ IsDragging(items[i])
    /\ \A k \in 1..Len(items[i].recognizers) : x >= items[i].recognizers[k].startX
    /\ TouchMove(i, x) \/ MouseMove(x)

\* C20: within one drag session, the offset that decides at drag-end is the
\* displacement of the last move that was left of the origin, 0 if there was
\* none: the drag-end commits exactly when that displacement is below -100,
\* wherever the pointer is by then, and a move at or right of the origin
\* leaves offset and affordance as they were.
C20_LastLeftwardMoveDecides ==
    [][\A i \in 1..Len(items) :
          /\ DragEnded(i)
             => (DeleteCalled(i) <=> session[i].lastLeft < -HardThreshold)
          /\ \A x \in Xs :
                 MoveNotLeft(i, x)
                 => /\ items'[i].transform = items[i].transform
                    /\ items'[i].deleteReady = items[i].deleteReady]_vars
====
